---- MODULE Spec2Model ----
(***************************************************************************)
(* A model of crawl_from_rss.py: the name sanitizer, the feed parser, the  *)
(* per-series pipeline (process_series_async, main) and the image          *)
(* harvester (process_images_in_series).                                   *)
(*                                                                         *)
(* Strings the code inspects character by character (titles, links) are    *)
(* sequences of one-character strings.  A Markdown document is its heading *)
(* (title and attribution link) and its body, a sequence of tokens: the    *)
(* text token "p" or an image reference [alt, url]; the image pattern of   *)
(* the harvester finds exactly the image references, in order.             *)
(***************************************************************************)
EXTENDS Integers, Sequences, FiniteSets, TLC

(***************************************************************************)
(* Bounds of the model.                                                    *)
(***************************************************************************)
MaxTitleLen == 3      \* longest enumerated title (sanitizer inputs)
MaxTailLen == 2       \* longest tail appended to a long title

(***************************************************************************)
(* Characters.  "\t" stands for the control characters 0x00-0x1f, ":" for  *)
(* the other illegal characters, "a" for an ordinary character, "NBSP" for *)
(* a whitespace character outside the control range.                       *)
(***************************************************************************)
ControlChars == {"\t"}
InvalidChars == {"<", ">", ":", "\"", "/", "\\", "|", "?", "*"} \cup ControlChars
Whitespace == {" ", "NBSP"} \cup ControlChars
TitleChars == {"a", " ", ".", "_", ":", "\t"}

MaxNameLen == 200

Repeat(c, n) == [i \in 1..n |-> c]

SeqsUpTo(S, n) == UNION {[1..k -> S] : k \in 0..n}

\* re.sub(invalid_chars, "_", title)
ReplaceInvalid(s) == [i \in 1..Len(s) |-> IF s[i] \in InvalidChars THEN "_" ELSE s[i]]

\* str.strip(chars): drop the leading and the trailing characters of the set
LStrip(s, cs) ==
    LET first == IF \A i \in 1..Len(s) : s[i] \in cs THEN Len(s) + 1
                 ELSE CHOOSE i \in 1..Len(s) :
                        s[i] \notin cs /\ \A j \in 1..(i - 1) : s[j] \in cs
    IN SubSeq(s, first, Len(s))

RStrip(s, cs) ==
    LET last == IF \A i \in 1..Len(s) : s[i] \in cs THEN 0
                ELSE CHOOSE i \in 1..Len(s) :
                       s[i] \notin cs /\ \A j \in (i + 1)..Len(s) : s[j] \in cs
    IN SubSeq(s, 1, last)

Strip(s, cs) == RStrip(LStrip(s, cs), cs)

\* the subsequence of s at the positions in keep, in order
Pick(s, keep) ==
    [k \in 1..Cardinality(keep) |->
        s[CHOOSE i \in keep : Cardinality({j \in keep : j <= i}) = k]]

\* re.sub(r"_+", "_", filename): of each run of underscores the first is kept
CollapseUnderscores(s) ==
    Pick(s, {i \in 1..Len(s) : ~(s[i] = "_" /\ i > 1 /\ s[i - 1] = "_")})

Truncate(s) == IF Len(s) > MaxNameLen THEN SubSeq(s, 1, MaxNameLen) ELSE s

sanitize_filename(title) ==
    Truncate(CollapseUnderscores(Strip(Strip(ReplaceInvalid(title), Whitespace), {"."})))

(***************************************************************************)
(* Inputs of the sanitizer: every short title, and long titles that reach  *)
(* the length limit with a short tail across it.                           *)
(***************************************************************************)
ShortTitles == SeqsUpTo(TitleChars, MaxTitleLen)
LongTitles ==
    {Repeat("a", MaxNameLen - 1) \o t : t \in SeqsUpTo(TitleChars, MaxTailLen)}
SanInputs == ShortTitles \cup LongTitles

VARIABLES san_pc, san_in, san_out

sanVars == <<san_pc, san_in, san_out>>

SanInit ==
    /\ san_pc = "idle"
    /\ san_in = <<>>
    /\ san_out = <<>>

\* a caller hands a title to sanitize_filename
SanCall ==
    /\ san_pc = "idle"
    /\ \E t \in SanInputs : san_in' = t
    /\ san_pc' = "called"
    /\ UNCHANGED san_out

\* sanitize_filename returns
SanReturn ==
    /\ san_pc = "called"
    /\ san_out' = sanitize_filename(san_in)
    /\ san_pc' = "returned"
    /\ UNCHANGED san_in


(***************************************************************************)
(* The file system.  fs maps the name of each existing series directory to *)
(* its documents (file name without ".md" -> content) and to the files     *)
(* under its media subdirectory (local file name -> the URL whose bytes it *)
(* holds).                                                                 *)
(***************************************************************************)
MaxDocs == 2          \* documents of a harvested directory
MaxRefs == 2          \* image references of a harvested directory, in total

NoUrl == [pre |-> "", id |-> 0, suffix |-> ""]
ImgToken(alt, url) == [kind |-> "img", alt |-> alt, url |-> url]

\* a URL: the prefix the code tests, an identity, and the suffix of its path
HttpUrl == [pre |-> "http://", id |-> 1, suffix |-> ".JPG"]
HttpsUrl == [pre |-> "https://", id |-> 2, suffix |-> ""]
OldDotLocalUrl == [pre |-> "./media/", id |-> 0, suffix |-> ".png"]
RelativeUrl == [pre |-> "img/", id |-> 0, suffix |-> ".gif"]
RemoteUrls == {HttpUrl, HttpsUrl}

\* the image references the documents of an arbitrary directory are made of
\* (references with the prefix media/ are what a run leaves behind)
InitRefs ==
    {ImgToken("a", HttpUrl), ImgToken("b", HttpUrl), ImgToken("a", HttpsUrl),
     ImgToken("a", OldDotLocalUrl), ImgToken("a", RelativeUrl)}

ImageExtensions == {".png", ".jpg", ".jpeg", ".gif", ".webp", ".svg", ".bmp", ".ico"}

Lower(x) == IF x = ".JPG" THEN ".jpg" ELSE x

\* get_image_extension(url): the whitelisted suffix of the lower-cased path
get_image_extension(url) ==
    IF Lower(url.suffix) \in ImageExtensions THEN Lower(url.suffix) ELSE ".png"

\* image_pattern.findall(content): the (alt, url) pairs, in document order
ImgPositions(body) == {i \in 1..Len(body) : body[i].kind = "img"}
FindAll(body) == Pick(body, ImgPositions(body))
\* the position in the body of the k-th match
MatchPos(body, k) ==
    CHOOSE i \in ImgPositions(body) : Cardinality({j \in ImgPositions(body) : j <= i}) = k

IsLocalRef(url) == url.pre = "media/" \/ url.pre = "./media/"
IsHttp(url) == url.pre = "http://" \/ url.pre = "https://"
\* a registry lookup that never finds the URL
InRegistryNever(reg, url) == FALSE
InRegistry(reg, url) == url \in DOMAIN reg
\* f"{uuid.uuid4()}{ext}"
NewFilename(uuid, url) == [id |-> uuid, ext |-> get_image_extension(url)]
\* a rewritten reference that still points at a remote host
MediaRefRemote(name) == [pre |-> "http://", id |-> name.id, suffix |-> name.ext]
\* f"media/{local_filename}"
MediaRef(name) == [pre |-> "media/", id |-> name.id, suffix |-> name.ext]
\* new_content.replace(old_image_md, new_image_md): every literal occurrence
ReplaceRef(body, alt, url, name) ==
    [i \in 1..Len(body) |->
        IF body[i] = ImgToken(alt, url) THEN ImgToken(alt, MediaRef(name)) ELSE body[i]]
\* a registry that forgets the entry
RegistryPutNothing(reg, url, name) == reg
\* the registry entry made after a successful download
RegistryPut(reg, url, name) == (url :> name) @@ reg
NeedsWrite(new, old) == new # old

\* download_image_async: a 200 response whose bytes are saved, a non-200
\* response, or an exception of the client
DownloadOutcomes == {"ok", "status", "error"}
DownloadSucceeded(o) == o = "ok"

\* counters that start from an earlier run's values
StaleStats ==
    [article_count |-> 0, image_count |-> 1, download_success |-> 1, download_failed |-> 0]
\* stats at the start of a run
ZeroStats ==
    [article_count |-> 0, image_count |-> 0, download_success |-> 0, download_failed |-> 0]

EmptyMap == <<>>
EmptyDir == [docs |-> EmptyMap, media |-> EmptyMap]
NoContent == [title |-> <<>>, link |-> <<>>, body |-> <<>>]

NoSnap == [docs |-> EmptyMap, uuid |-> 0, failed |-> FALSE, bad_io |-> FALSE]

VARIABLES
    fs,            \* the directories on disk
    img_pc,        \* position in process_images_in_series
    img_dir,       \* series_dir
    todo,          \* the .md files the glob has yet to yield
    cur,           \* md_file
    content,       \* content
    new_content,   \* new_content
    matches,       \* matches
    mi,            \* index of the next match
    url_to_local,  \* the registry of this run
    stats,         \* stats
    next_uuid,     \* the next fresh uuid
    dl_log,        \* history: the download requests of this run, with outcome
    failed_pos,    \* history: body positions of the current document whose download failed
    bad_docs,      \* history: documents whose read or write-back failed in this run
    run,           \* harvester runs started on the directory
    snap           \* history: the directory as it was when this run was called

imgVars == <<fs, img_pc, img_dir, todo, cur, content, new_content, matches, mi,
             url_to_local, stats, next_uuid, dl_log, failed_pos, bad_docs, run, snap>>

ImgIdle ==
    /\ img_pc = "idle"
    /\ img_dir = <<>>
    /\ todo = {}
    /\ cur = <<>>
    /\ content = NoContent
    /\ new_content = NoContent
    /\ matches = <<>>
    /\ mi = 1
    /\ url_to_local = EmptyMap
    /\ stats = ZeroStats
    /\ next_uuid = 1
    /\ dl_log = <<>>
    /\ failed_pos = {}
    /\ bad_docs = {}
    /\ run = 0
    /\ snap = NoSnap

\* a read, a download or a write-back of the run so far failed
RunFailed == bad_docs # {} \/ \E i \in 1..Len(dl_log) : ~dl_log[i].ok

\* what a caller of the harvester finds: the documents of the directory, the
\* next uuid, and whether the run before had a failure (bad_io: of a document
\* read or write-back)
Snapshot(d) ==
    [docs |-> IF d \in DOMAIN fs THEN fs[d].docs ELSE EmptyMap,
     uuid |-> next_uuid, failed |-> RunFailed, bad_io |-> bad_docs # {}]

\* process_images_in_series(series_dir), up to the loop over the .md files
ImgStart ==
    /\ img_pc = "start"
    /\ stats' = ZeroStats
    /\ url_to_local' = EmptyMap
    /\ dl_log' = <<>>
    /\ failed_pos' = {}
    /\ bad_docs' = {}
    /\ IF img_dir \notin DOMAIN fs
       THEN /\ img_pc' = "done"
            /\ todo' = {}
       ELSE /\ img_pc' = "glob"
            /\ todo' = DOMAIN fs[img_dir].docs
    /\ UNCHANGED <<fs, img_dir, cur, content, new_content, matches, mi, next_uuid, run, snap>>

\* the glob yields the next .md file, in any order; it is read and scanned
ImgNextFile ==
    /\ img_pc = "glob"
    /\ \E f \in todo, readOk \in BOOLEAN :
        /\ todo' = todo \ {f}
        /\ cur' = f
        /\ stats' = [stats EXCEPT !.article_count = @ + 1]
        /\ failed_pos' = {}
        /\ IF ~readOk
           THEN /\ bad_docs' = bad_docs \cup {f}
                /\ UNCHANGED <<content, new_content, matches, mi, img_pc>>
           ELSE /\ content' = fs[img_dir].docs[f]
                /\ new_content' = fs[img_dir].docs[f]
                /\ matches' = FindAll(fs[img_dir].docs[f].body)
                /\ mi' = 1
                /\ img_pc' = IF FindAll(fs[img_dir].docs[f].body) = <<>> THEN "glob" ELSE "match"
                /\ UNCHANGED bad_docs
    /\ UNCHANGED <<fs, img_dir, url_to_local, next_uuid, dl_log, run, snap>>

\* one iteration of the loop over the matches of the current document
ImgMatch ==
    /\ img_pc = "match"
    /\ mi <= Len(matches)
    /\ mi' = mi + 1
    /\ LET alt == matches[mi].alt
           url == matches[mi].url
           counted == [stats EXCEPT !.image_count = @ + 1]
       IN
       IF IsLocalRef(url) \/ ~IsHttp(url)
       THEN /\ stats' = counted
            /\ UNCHANGED <<fs, new_content, url_to_local, next_uuid, dl_log, failed_pos>>
       ELSE IF InRegistry(url_to_local, url)
       THEN /\ stats' = counted
            /\ new_content' =
                 [new_content EXCEPT !.body = ReplaceRef(@, alt, url, url_to_local[url])]
            /\ UNCHANGED <<fs, url_to_local, next_uuid, dl_log, failed_pos>>
       ELSE \E o \in DownloadOutcomes :
            LET name == NewFilename(next_uuid, url) IN
            /\ next_uuid' = next_uuid + 1
            /\ dl_log' = Append(dl_log, [url |-> url, ok |-> DownloadSucceeded(o)])
            /\ IF DownloadSucceeded(o)
               THEN /\ fs' = [fs EXCEPT ![img_dir].media = (name :> url) @@ @]
                    /\ stats' = [counted EXCEPT !.download_success = @ + 1]
                    /\ url_to_local' = RegistryPut(url_to_local, url, name)
                    /\ new_content' = [new_content EXCEPT !.body = ReplaceRef(@, alt, url, name)]
                    /\ UNCHANGED failed_pos
               ELSE /\ stats' = [counted EXCEPT !.download_failed = @ + 1]
                    /\ failed_pos' = failed_pos \cup {MatchPos(content.body, mi)}
                    /\ UNCHANGED <<fs, url_to_local, new_content>>
    /\ UNCHANGED <<img_pc, img_dir, todo, cur, content, matches, bad_docs, run, snap>>

\* after the last match: the document is written back when it changed
ImgWriteBack ==
    /\ img_pc = "match"
    /\ mi > Len(matches)
    /\ img_pc' = "glob"
    /\ IF NeedsWrite(new_content, content)
       THEN \E writeOk \in BOOLEAN :
            IF writeOk
            THEN /\ fs' = [fs EXCEPT ![img_dir].docs[cur] = new_content]
                 /\ UNCHANGED bad_docs
            ELSE /\ bad_docs' = bad_docs \cup {cur}
                 /\ UNCHANGED fs
       ELSE UNCHANGED <<fs, bad_docs>>
    /\ UNCHANGED <<img_dir, todo, cur, content, new_content, matches, mi, url_to_local,
                   stats, next_uuid, dl_log, failed_pos, run, snap>>

\* the glob is exhausted: return stats
ImgReturn ==
    /\ img_pc = "glob"
    /\ todo = {}
    /\ img_pc' = "done"
    /\ UNCHANGED <<fs, img_dir, todo, cur, content, new_content, matches, mi, url_to_local,
                   stats, next_uuid, dl_log, failed_pos, bad_docs, run, snap>>

ImgStep == ImgStart \/ ImgNextFile \/ ImgMatch \/ ImgWriteBack \/ ImgReturn

(***************************************************************************)
(* The feed parser, the converter and the document writer.                 *)
(***************************************************************************)
MaxSeries == 2        \* series URLs of rss.json
MaxItems == 2         \* items of a feed

\* Python's None, and an element missing from an item, as strings of their own
None == <<"None">>
Absent == <<"Absent">>
Untitled == <<"U", "n", "t", "i", "t", "l", "e", "d">>
UnknownSeries ==
    <<"U", "n", "k", "n", "o", "w", "n", " ", "S", "e", "r", "i", "e", "s">>

\* an item of the feed: its title and link elements (Absent, None for an empty
\* element, or the text)
RawItems ==
    {[title |-> Absent, link |-> <<"l", "?", "q">>],
     [title |-> <<"a", ":">>, link |-> <<"l", "?", "q">>],
     [title |-> <<"a", ":">>, link |-> Absent],
     [title |-> None, link |-> <<"l", "?", "q">>]}

\* bool(x) of a string or None
Truthy(x) == x # None /\ x # <<>>

\* link.split("?")[0]
BeforeQuery(l) ==
    IF \E i \in 1..Len(l) : l[i] = "?"
    THEN SubSeq(l, 1, (CHOOSE i \in 1..Len(l) : l[i] = "?" /\ \A j \in 1..(i - 1) : l[j] # "?") - 1)
    ELSE l

\* the article reference fetch_rss_content_async makes of an item
ParseItem(item) ==
    LET title == IF item.title # Absent THEN item.title ELSE Untitled
        link == IF item.link # Absent THEN item.link ELSE <<>>
    IN [title |-> title, link |-> IF Truthy(link) THEN BeforeQuery(link) ELSE link]

ParseItems(items) == [i \in 1..Len(items) |-> ParseItem(items[i])]

\* what the feed request can give: no usable feed (non-200 status, malformed
\* XML, no channel element, an exception), or a channel with a title and items
FeedFailures == {"status", "parse_error", "no_channel", "exception"}
RssTitles == {<<>>, <<"s">>}
ResolvedTitles == {UnknownSeries, <<"s">>}

\* the markup of an article page: whitespace only, or one image
WsNode == [kind |-> "ws", alt |-> "", url |-> NoUrl]
Htmls == {<<WsNode>>, <<ImgToken("a", HttpUrl)>>, <<WsNode, ImgToken("b", HttpUrl)>>}
\* what fetch_article_content_async returns: "" (page not loaded, no selector
\* matched, an exception) or the inner markup of the matched element
FetchResults == {<<>>} \cup Htmls

\* convert_html_to_markdown: the converted markup, stripped of outer whitespace
convert_html_to_markdown(html) ==
    IF html = <<>> THEN <<>> ELSE Strip(html, {WsNode})

\* save_article_as_markdown: the file name and the content written
SaveName(title) == sanitize_filename(title)
SavedContent(title, link, markdown) == [title |-> title, link |-> link, body |-> markdown]
\* a writer that stores the body without heading and attribution line
SaveBodyOnly(dir, title, link, markdown) ==
    [dir EXCEPT !.docs = (SaveName(title) :> SavedContent(<<>>, <<>>, markdown)) @@ @]
SaveArticle(dir, title, link, markdown) ==
    [dir EXCEPT !.docs = (SaveName(title) :> SavedContent(title, link, markdown)) @@ @]

\* output_dir.mkdir(parents=True, exist_ok=True)
Mkdir(disk, d) == IF d \in DOMAIN disk THEN disk ELSE (d :> EmptyDir) @@ disk

\* the directory does not exist or holds no document
NoDocs(disk, d) == d \notin DOMAIN disk \/ DOMAIN disk[d].docs = {}

\* series_title after the feed is read
ReconcileTitle(page_title, rss_title) ==
    IF page_title = UnknownSeries /\ Truthy(rss_title) THEN rss_title ELSE page_title

\* a test that lets a series without articles through
NoArticlesNever(found) == FALSE
\* "if not articles"
NoArticles(found) == found = <<>>

VARIABLES
    pl_pc,          \* position in main / process_series_async
    nseeds,         \* len(series_urls)
    sidx,           \* index of the series in process
    total_success,  \* total_success
    series_title,   \* series_title
    articles,       \* articles
    aidx,           \* i of the article loop
    success_count,  \* success_count
    output_dir,     \* output_dir (its name under the base directory)
    ret,            \* the value process_series_async returns
    astate,         \* history: the state of each article of the series
    ahtml,          \* history: the markup fetched for each article
    eff,            \* history: what the series in process has done
    sres            \* history: how each series ended

mainVars == <<nseeds, sidx, total_success, sres>>
seriesLocals == <<series_title, articles, aidx, success_count, output_dir, ret, astate,
                  ahtml, eff>>
pipeVars == <<pl_pc, mainVars, seriesLocals>>


\* resolved: Step 1 gave a title; found: the articles of the feed; fresh_dir:
\* the output directory did not exist before; mkdir, fetches, downloads: the
\* directory made, the article pages and the images requested
NoEffect ==
    [resolved |-> FALSE, found |-> 0, fresh_dir |-> FALSE, mkdir |-> FALSE,
     fetches |-> 0, downloads |-> 0]

PipeIdle ==
    /\ pl_pc = "off"
    /\ nseeds = 0
    /\ sidx = 1
    /\ total_success = 0
    /\ series_title = <<>>
    /\ articles = <<>>
    /\ aidx = 1
    /\ success_count = 0
    /\ output_dir = <<>>
    /\ ret = 0
    /\ astate = <<>>
    /\ ahtml = <<>>
    /\ eff = NoEffect
    /\ sres = <<>>

imgLocals == <<img_pc, img_dir, todo, cur, content, new_content, matches, mi,
               url_to_local, stats, dl_log, failed_pos, bad_docs, run, snap>>

\* main: the loop over series_urls calls process_series_async
MainNextSeries ==
    /\ pl_pc = "main"
    /\ sidx <= nseeds
    /\ pl_pc' = "resolve"
    /\ UNCHANGED <<mainVars, seriesLocals, imgVars>>

\* main: the loop is over (or rss.json gave no URL)
MainDone ==
    /\ pl_pc = "main"
    /\ sidx > nseeds
    /\ pl_pc' = "done"
    /\ UNCHANGED <<mainVars, seriesLocals, imgVars>>

\* Step 1: fetch_series_info_async returns None (page not loaded, no feed link,
\* an exception) or the series title
Resolve ==
    /\ pl_pc = "resolve"
    /\ \/ /\ ret' = 0
          /\ pl_pc' = "ret"
          /\ UNCHANGED <<series_title, eff>>
       \/ /\ \E t \in ResolvedTitles : series_title' = t
          /\ eff' = [eff EXCEPT !.resolved = TRUE]
          /\ pl_pc' = "feed"
          /\ UNCHANGED ret
    /\ UNCHANGED <<mainVars, articles, aidx, success_count, output_dir, astate, ahtml,
                   imgVars>>

\* Step 2: fetch_rss_content_async, the title reconciled, the skip of a series
\* without articles, the output directory made
ReadFeed ==
    /\ pl_pc = "feed"
    /\ \E rss_title \in RssTitles, items \in SeqsUpTo(RawItems, MaxItems),
          failure \in FeedFailures \cup {"none"} :
         LET found == IF failure = "none" THEN ParseItems(items) ELSE <<>>
             t == ReconcileTitle(series_title, IF failure = "none" THEN rss_title ELSE <<>>)
         IN
         /\ articles' = found
         /\ series_title' = t
         /\ IF NoArticles(found)
            THEN /\ ret' = 0
                 /\ pl_pc' = "ret"
                 /\ eff' = [eff EXCEPT !.found = Len(found)]
                 /\ UNCHANGED <<fs, output_dir, astate, ahtml>>
            ELSE /\ output_dir' = sanitize_filename(t)
                 /\ fs' = Mkdir(fs, sanitize_filename(t))
                 /\ eff' = [eff EXCEPT !.found = Len(found), !.mkdir = TRUE,
                                       !.fresh_dir = NoDocs(fs, sanitize_filename(t))]
                 /\ astate' = [i \in 1..Len(found) |-> "Pending"]
                 /\ ahtml' = [i \in 1..Len(found) |-> <<>>]
                 /\ pl_pc' = "loop"
                 /\ UNCHANGED ret
    /\ UNCHANGED <<mainVars, aidx, success_count, imgLocals, next_uuid>>

\* Step 3, one article: the progress line, the skip of an article without link,
\* or the request for the article page
ArticleBegin ==
    /\ pl_pc = "loop"
    /\ aidx <= Len(articles)
    /\ IF articles[aidx].title = None
       THEN \* title[:50] raises TypeError, which nothing catches
            /\ pl_pc' = "crashed"
            /\ UNCHANGED <<aidx, astate, eff>>
       ELSE IF ~Truthy(articles[aidx].link)
       THEN /\ astate' = [astate EXCEPT ![aidx] = "Skipped"]
            /\ aidx' = aidx + 1
            /\ UNCHANGED <<pl_pc, eff>>
       ELSE /\ astate' = [astate EXCEPT ![aidx] = "Fetching"]
            /\ eff' = [eff EXCEPT !.fetches = @ + 1]
            /\ pl_pc' = "fetch"
            /\ UNCHANGED aidx
    /\ UNCHANGED <<mainVars, series_title, articles, success_count, output_dir, ret, ahtml,
                   imgVars>>

\* Step 3, one article: the page content arrives, is converted and saved
ArticleFetched ==
    /\ pl_pc = "fetch"
    /\ \E html \in FetchResults, writeOk \in BOOLEAN :
         LET title == articles[aidx].title
             link == articles[aidx].link
             markdown == convert_html_to_markdown(html)
         IN
         /\ ahtml' = [ahtml EXCEPT ![aidx] = html]
         /\ IF html = <<>>
            THEN /\ astate' = [astate EXCEPT ![aidx] = "FetchFailed"]
                 /\ UNCHANGED <<fs, success_count>>
            ELSE IF markdown = <<>>
            THEN /\ astate' = [astate EXCEPT ![aidx] = "ConversionEmpty"]
                 /\ UNCHANGED <<fs, success_count>>
            ELSE IF writeOk
            THEN /\ fs' = [fs EXCEPT ![output_dir] = SaveArticle(@, title, link, markdown)]
                 /\ success_count' = success_count + 1
                 /\ astate' = [astate EXCEPT ![aidx] = "Written"]
            ELSE /\ astate' = [astate EXCEPT ![aidx] = "WriteFailed"]
                 /\ UNCHANGED <<fs, success_count>>
    /\ aidx' = aidx + 1
    /\ pl_pc' = "loop"
    /\ UNCHANGED <<mainVars, series_title, articles, output_dir, ret, eff, imgLocals,
                   next_uuid>>

\* Step 4: process_images_in_series(output_dir) is called
HarvestCall ==
    /\ pl_pc = "loop"
    /\ aidx > Len(articles)
    /\ pl_pc' = "step4"
    /\ img_pc' = "start"
    /\ img_dir' = output_dir
    /\ run' = 1
    /\ snap' = Snapshot(output_dir)
    /\ UNCHANGED <<fs, todo, cur, content, new_content, matches, mi, url_to_local, stats,
                   next_uuid, dl_log, failed_pos, bad_docs>>
    /\ UNCHANGED <<mainVars, seriesLocals>>

\* Step 4 is over: process_series_async returns success_count
HarvestReturn ==
    /\ pl_pc = "step4"
    /\ img_pc = "done"
    /\ ret' = success_count
    /\ pl_pc' = "ret"
    /\ eff' = [eff EXCEPT !.downloads = Len(dl_log)]
    /\ UNCHANGED <<mainVars, series_title, articles, aidx, success_count, output_dir,
                   astate, ahtml, imgVars>>

\* main: total_success += success_count, and on to the next series; the locals
\* of the call are gone
MainAdd ==
    /\ pl_pc = "ret"
    /\ total_success' = total_success + ret
    /\ sres' = Append(sres, [skip |-> ~eff.resolved \/ eff.found = 0, count |-> ret,
                             untouched |-> ~eff.mkdir /\ eff.fetches = 0 /\ eff.downloads = 0])
    /\ sidx' = sidx + 1
    /\ pl_pc' = "main"
    /\ series_title' = <<>>
    /\ articles' = <<>>
    /\ aidx' = 1
    /\ success_count' = 0
    /\ output_dir' = <<>>
    /\ ret' = 0
    /\ astate' = <<>>
    /\ ahtml' = <<>>
    /\ eff' = NoEffect
    /\ img_pc' = "idle"
    /\ img_dir' = <<>>
    /\ todo' = {}
    /\ cur' = <<>>
    /\ content' = NoContent
    /\ new_content' = NoContent
    /\ matches' = <<>>
    /\ mi' = 1
    /\ url_to_local' = EmptyMap
    /\ stats' = ZeroStats
    /\ dl_log' = <<>>
    /\ failed_pos' = {}
    /\ bad_docs' = {}
    /\ run' = 0
    /\ snap' = NoSnap
    /\ UNCHANGED <<nseeds, fs, next_uuid>>

(***************************************************************************)
(* fetch_article_content_async on one article page.  The page is what the  *)
(* browser gives: the outcome of page.goto, and for each selector of       *)
(* content_selectors the outcome of the lookup (locator(...).first,        *)
(* count(), inner_html()).                                                 *)
(***************************************************************************)
content_selectors ==
    <<"div.markdown-body", "div.qa-markdown", "article.article-content",
      "div.article-content">>

\* page.goto: no response, a status other than 200, an exception, or 200
GotoOutcomes == {"none", "status", "raise", "ok"}
GotoLoaded(g) == g = "ok"

\* a lookup: count() is 0, the lookup raises, count() > 0 and inner_html()
\* raises, or count() > 0 and inner_html() returns the markup (which may be
\* the empty string)
SelectorOutcomes ==
    {[kind |-> k, html |-> <<>>] : k \in {"nomatch", "raise", "inner_raise"}}
        \cup {[kind |-> "match", html |-> h] : h \in FetchResults}

Pages == [goto : GotoOutcomes,
          lookup : [1..Len(content_selectors) -> SelectorOutcomes]]
NoPage == [goto |-> "none", lookup |-> [i \in 1..Len(content_selectors) |->
                                            [kind |-> "nomatch", html |-> <<>>]]]

\* a loop that passes over a matching element with empty markup
SelectorHitNonEmpty(o) == o.kind = "match" /\ o.html # <<>>
\* "if await element.count() > 0" followed by an inner_html() that returns
SelectorHit(o) == o.kind = "match"

VARIABLES
    fetch_pc,      \* position in fetch_article_content_async
    page,          \* the page behind the URL
    sel_i,         \* index of selector in content_selectors
    html_content,  \* html_content
    fetch_out      \* the value returned

fetchVars == <<fetch_pc, page, sel_i, html_content, fetch_out>>

FetchIdle ==
    /\ fetch_pc = "idle"
    /\ page = NoPage
    /\ sel_i = 1
    /\ html_content = <<>>
    /\ fetch_out = <<>>

\* page.goto(url): a page that did not load, or an exception, returns ""
FetchGoto ==
    /\ fetch_pc = "goto"
    /\ IF GotoLoaded(page.goto)
       THEN /\ fetch_pc' = "loop"
            /\ sel_i' = 1
            /\ html_content' = <<>>
            /\ UNCHANGED fetch_out
       ELSE /\ fetch_pc' = "returned"
            /\ fetch_out' = <<>>
            /\ UNCHANGED <<sel_i, html_content>>
    /\ UNCHANGED page

\* one iteration of the loop over content_selectors
FetchTrySelector ==
    /\ fetch_pc = "loop"
    /\ sel_i <= Len(content_selectors)
    /\ IF SelectorHit(page.lookup[sel_i])
       THEN /\ html_content' = page.lookup[sel_i].html
            /\ fetch_pc' = "break"
            /\ UNCHANGED sel_i
       ELSE /\ sel_i' = sel_i + 1
            /\ UNCHANGED <<html_content, fetch_pc>>
    /\ UNCHANGED <<page, fetch_out>>

\* after the break or the last selector: return html_content
FetchReturn ==
    /\ \/ fetch_pc = "break"
       \/ fetch_pc = "loop" /\ sel_i > Len(content_selectors)
    /\ fetch_out' = html_content
    /\ fetch_pc' = "returned"
    /\ UNCHANGED <<page, sel_i, html_content>>

(***************************************************************************)
(* fetch_rss_content_async on one feed response.                           *)
(***************************************************************************)
\* the items a channel can hold: those of RawItems, an item with an empty
\* link element, and an item whose link has no query string
FeedItems ==
    RawItems \cup {[title |-> <<"a">>, link |-> None],
                   [title |-> <<"a">>, link |-> <<"l">>]}

\* a response: one of the failures, or a channel with its title and items
FeedResponses ==
    {[status |-> f, title |-> <<>>, items |-> <<>>] : f \in FeedFailures}
        \cup [status : {"ok"}, title : RssTitles, items : SeqsUpTo(FeedItems, MaxItems)]
NoResponse == [status |-> "status", title |-> <<>>, items |-> <<>>]

VARIABLES
    feed_pc,        \* position in fetch_rss_content_async
    feed_doc,       \* the response to the request for rss_url
    item_i,         \* index of item in channel.findall("item")
    feed_title,     \* series_title
    feed_articles   \* articles

feedVars == <<feed_pc, feed_doc, item_i, feed_title, feed_articles>>

FeedIdle ==
    /\ feed_pc = "idle"
    /\ feed_doc = NoResponse
    /\ item_i = 1
    /\ feed_title = <<>>
    /\ feed_articles = <<>>

\* the request, the parse, the channel and its title
FeedOpen ==
    /\ feed_pc = "request"
    /\ feed_articles' = <<>>
    /\ item_i' = 1
    /\ IF feed_doc.status \in FeedFailures
       THEN /\ feed_title' = <<>>
            /\ feed_pc' = "returned"
       ELSE /\ feed_title' = feed_doc.title
            /\ feed_pc' = "items"
    /\ UNCHANGED feed_doc

\* one iteration of the loop over the items of the channel
FeedItem ==
    /\ feed_pc = "items"
    /\ item_i <= Len(feed_doc.items)
    /\ feed_articles' = Append(feed_articles, ParseItem(feed_doc.items[item_i]))
    /\ item_i' = item_i + 1
    /\ UNCHANGED <<feed_pc, feed_doc, feed_title>>

\* return series_title, articles
FeedReturn ==
    /\ feed_pc = "items"
    /\ item_i > Len(feed_doc.items)
    /\ feed_pc' = "returned"
    /\ UNCHANGED <<feed_doc, item_i, feed_title, feed_articles>>

vars == <<sanVars, imgVars, pipeVars, fetchVars, feedVars>>

(***************************************************************************)
(* The whole program: main on an rss.json of up to MaxSeries series URLs,  *)
(* the base output directory empty.                                        *)
(***************************************************************************)
PipeInit ==
    /\ SanInit
    /\ ImgIdle
    /\ FetchIdle
    /\ FeedIdle
    /\ fs = EmptyMap
    /\ pl_pc = "main"
    /\ nseeds \in 0..MaxSeries
    /\ sidx = 1
    /\ total_success = 0
    /\ series_title = <<>>
    /\ articles = <<>>
    /\ aidx = 1
    /\ success_count = 0
    /\ output_dir = <<>>
    /\ ret = 0
    /\ astate = <<>>
    /\ ahtml = <<>>
    /\ eff = NoEffect
    /\ sres = <<>>

\* what an earlier run of the program may have left under the base directory
OldContent == [title |-> <<"o">>, link |-> <<"l">>, body |-> <<ImgToken("a", HttpsUrl)>>]
OldDirs == {EmptyMap, (<<"s">> :> [docs |-> (<<"o">> :> OldContent), media |-> EmptyMap])}

\* one call of process_series_async, as main makes it
SeriesInit ==
    /\ SanInit
    /\ ImgIdle
    /\ FetchIdle
    /\ FeedIdle
    /\ fs \in OldDirs
    /\ pl_pc = "main"
    /\ nseeds = 1
    /\ sidx = 1
    /\ total_success = 0
    /\ series_title = <<>>
    /\ articles = <<>>
    /\ aidx = 1
    /\ success_count = 0
    /\ output_dir = <<>>
    /\ ret = 0
    /\ astate = <<>>
    /\ ahtml = <<>>
    /\ eff = NoEffect
    /\ sres = <<>>

PipeNext ==
    \/ MainNextSeries /\ UNCHANGED <<sanVars, fetchVars, feedVars>>
    \/ MainDone /\ UNCHANGED <<sanVars, fetchVars, feedVars>>
    \/ Resolve /\ UNCHANGED <<sanVars, fetchVars, feedVars>>
    \/ ReadFeed /\ UNCHANGED <<sanVars, fetchVars, feedVars>>
    \/ ArticleBegin /\ UNCHANGED <<sanVars, fetchVars, feedVars>>
    \/ ArticleFetched /\ UNCHANGED <<sanVars, fetchVars, feedVars>>
    \/ HarvestCall /\ UNCHANGED <<sanVars, fetchVars, feedVars>>
    \/ ImgStart /\ pl_pc = "step4" /\ UNCHANGED <<sanVars, pipeVars, fetchVars, feedVars>>
    \/ ImgNextFile /\ pl_pc = "step4" /\ UNCHANGED <<sanVars, pipeVars, fetchVars, feedVars>>
    \/ ImgMatch /\ pl_pc = "step4" /\ UNCHANGED <<sanVars, pipeVars, fetchVars, feedVars>>
    \/ ImgWriteBack /\ pl_pc = "step4" /\ UNCHANGED <<sanVars, pipeVars, fetchVars, feedVars>>
    \/ ImgReturn /\ pl_pc = "step4" /\ UNCHANGED <<sanVars, pipeVars, fetchVars, feedVars>>
    \/ HarvestReturn /\ UNCHANGED <<sanVars, fetchVars, feedVars>>
    \/ MainAdd /\ UNCHANGED <<sanVars, fetchVars, feedVars>>

SpecPipe == PipeInit /\ [][PipeNext]_vars

SpecSeries == SeriesInit /\ [][PipeNext]_vars

(***************************************************************************)
(* The harvester on an arbitrary series directory, run twice in succession *)
(* (process_images_main run again on the same articles directory).         *)
(***************************************************************************)
SeriesDirName == <<"s">>
DocName(i) == Repeat("d", i)
RECURSIVE TotalLen(_)
TotalLen(b) == IF b = <<>> THEN 0 ELSE Len(Head(b)) + TotalLen(Tail(b))
InitBodies(n) == {b \in [1..n -> SeqsUpTo(InitRefs, MaxRefs)] : TotalLen(b) <= MaxRefs}
DocsOf(b) ==
    [f \in {DocName(i) : i \in DOMAIN b} |->
        [title |-> <<>>, link |-> <<>>, body |-> b[Len(f)]]]

ImagesInit ==
    /\ ImgIdle
    /\ SanInit
    /\ PipeIdle
    /\ FetchIdle
    /\ FeedIdle
    /\ \E n \in 1..MaxDocs : \E b \in InitBodies(n) :
         fs = (SeriesDirName :> [docs |-> DocsOf(b), media |-> EmptyMap])

\* process_images_in_articles calls process_images_in_series on the directory
ImagesCall ==
    /\ img_pc \in {"idle", "done"}
    /\ run < 2
    /\ run' = run + 1
    /\ img_pc' = "start"
    /\ img_dir' = SeriesDirName
    /\ snap' = Snapshot(SeriesDirName)
    /\ UNCHANGED <<fs, todo, cur, content, new_content, matches, mi, url_to_local, stats,
                   next_uuid, dl_log, failed_pos, bad_docs>>

ImagesNext ==
    \/ ImagesCall /\ UNCHANGED <<sanVars, pipeVars, fetchVars, feedVars>>
    \/ ImgStart /\ UNCHANGED <<sanVars, pipeVars, fetchVars, feedVars>>
    \/ ImgNextFile /\ UNCHANGED <<sanVars, pipeVars, fetchVars, feedVars>>
    \/ ImgMatch /\ UNCHANGED <<sanVars, pipeVars, fetchVars, feedVars>>
    \/ ImgWriteBack /\ UNCHANGED <<sanVars, pipeVars, fetchVars, feedVars>>
    \/ ImgReturn /\ UNCHANGED <<sanVars, pipeVars, fetchVars, feedVars>>

SpecImages == ImagesInit /\ [][ImagesNext]_vars

(***************************************************************************)
(* The name sanitizer on its own.                                          *)
(***************************************************************************)
SanitizerInit ==
    /\ SanInit
    /\ ImgIdle
    /\ fs = EmptyMap
    /\ PipeIdle
    /\ FetchIdle
    /\ FeedIdle

SanitizerNext ==
    \/ SanCall /\ UNCHANGED <<imgVars, pipeVars, fetchVars, feedVars>>
    \/ SanReturn /\ UNCHANGED <<imgVars, pipeVars, fetchVars, feedVars>>

SpecSan == SanitizerInit /\ [][SanitizerNext]_vars

(***************************************************************************)
(* The content extractor on its own: any page, one call.                   *)
(***************************************************************************)
ExtractorInit ==
    /\ SanInit
    /\ ImgIdle
    /\ fs = EmptyMap
    /\ PipeIdle
    /\ FeedIdle
    /\ fetch_pc = "goto"
    /\ page \in Pages
    /\ sel_i = 1
    /\ html_content = <<>>
    /\ fetch_out = <<>>

ExtractorNext ==
    \/ FetchGoto /\ UNCHANGED <<sanVars, imgVars, pipeVars, feedVars>>
    \/ FetchTrySelector /\ UNCHANGED <<sanVars, imgVars, pipeVars, feedVars>>
    \/ FetchReturn /\ UNCHANGED <<sanVars, imgVars, pipeVars, feedVars>>

SpecFetch == ExtractorInit /\ [][ExtractorNext]_vars

(***************************************************************************)
(* The feed parser on its own: any response, one call.                     *)
(***************************************************************************)
ParserInit ==
    /\ SanInit
    /\ ImgIdle
    /\ fs = EmptyMap
    /\ PipeIdle
    /\ FetchIdle
    /\ feed_pc = "request"
    /\ feed_doc \in FeedResponses
    /\ item_i = 1
    /\ feed_title = <<>>
    /\ feed_articles = <<>>

ParserNext ==
    \/ FeedOpen /\ UNCHANGED <<sanVars, imgVars, pipeVars, fetchVars>>
    \/ FeedItem /\ UNCHANGED <<sanVars, imgVars, pipeVars, fetchVars>>
    \/ FeedReturn /\ UNCHANGED <<sanVars, imgVars, pipeVars, fetchVars>>

SpecFeed == ParserInit /\ [][ParserNext]_vars

(***************************************************************************)
(* Properties of the harvester.                                            *)
(***************************************************************************)
DocsNow == IF img_dir \in DOMAIN fs THEN fs[img_dir].docs ELSE EmptyMap
MediaNow == IF img_dir \in DOMAIN fs THEN fs[img_dir].media ELSE EmptyMap

Requests(u) == {i \in 1..Len(dl_log) : dl_log[i].url = u}
FirstRequestOk(u) ==
    \E i \in Requests(u) : dl_log[i].ok /\ \A j \in Requests(u) : i <= j
OccursIn(docs, u) ==
    \E f \in DOMAIN docs : \E i \in 1..Len(docs[f].body) : docs[f].body[i].url = u
DocsWith(docs, u) ==
    {f \in DOMAIN docs : \E i \in 1..Len(docs[f].body) : docs[f].body[i].url = u}
\* the files this run wrote under media/ for the URL
FilesOfRun(u) == {n \in DOMAIN MediaNow : MediaNow[n] = u /\ n.id >= snap.uuid}
RunEnded == run >= 1 /\ img_pc = "done"
InRun == run >= 1 /\ img_pc # "start"

ResolvedBy(old, new) ==
    \/ new = old
    \/ \E n \in FilesOfRun(old.url) : new = ImgToken(old.alt, MediaRef(n))

C7_Original ==
    /\ InRun => stats.download_failed = Cardinality({i \in 1..Len(dl_log) : ~dl_log[i].ok})
    /\ (InRun /\ img_pc = "match") =>
         \A p \in failed_pos : new_content.body[p] = content.body[p]

\* C8 as stated, for image URLs: once a request for a URL has failed, the URL
\* is not requested again during the run.
C8_Original ==
    InRun =>
      \A i \in 1..Len(dl_log) : \A j \in 1..Len(dl_log) :
        (i < j /\ dl_log[i].url = dl_log[j].url) => dl_log[i].ok

(***************************************************************************)
(* Properties of the name sanitizer.                                       *)
(***************************************************************************)
\* the reference at the position was rewritten to a file that this run saved
\* under media/ with the bytes of the URL the reference had
SavedThisRun(new, old) ==
    \E n \in DOMAIN MediaNow :
        /\ new.url = MediaRef(n)
        /\ n.id >= snap.uuid
        /\ MediaNow[n] = old.url
RewrittenSound(new_body, old_body) ==
    \A i \in 1..Len(new_body) :
        new_body[i] # old_body[i] =>
            /\ new_body[i].url.pre = "media/"
            /\ new_body[i].alt = old_body[i].alt
            /\ SavedThisRun(new_body[i], old_body[i])

\* C14: at every point of a run of process_images_in_series the registry
\* holds exactly the URLs whose download succeeded in this run,
\* download_success is the number of registry entries, download_success plus
\* download_failed is at most image_count, and every reference the run has
\* rewritten, in the content in memory and in the documents on disk, names a
\* file saved under media/ earlier in this run.
C14_CountersAndRegistry ==
    InRun =>
        /\ DOMAIN url_to_local = {dl_log[i].url : i \in {j \in 1..Len(dl_log) : dl_log[j].ok}}
        /\ stats.download_success = Cardinality(DOMAIN url_to_local)
        /\ stats.download_success + stats.download_failed <= stats.image_count
        /\ \A u \in DOMAIN url_to_local :
             url_to_local[u] \in DOMAIN MediaNow /\ MediaNow[url_to_local[u]] = u
        /\ img_pc = "match" => RewrittenSound(new_content.body, content.body)
        /\ \A f \in DOMAIN DocsNow : RewrittenSound(DocsNow[f].body, snap.docs[f].body)

\* a run that ended with one failed and one successful download, the
\* reference of the successful one rewritten on disk
C14_Witness ==
    /\ RunEnded
    /\ stats.image_count = 2
    /\ stats.download_success = 1
    /\ stats.download_failed = 1
    /\ Cardinality(DOMAIN url_to_local) = 1
    /\ \E f \in DOMAIN DocsNow : \E i \in 1..Len(DocsNow[f].body) :
         /\ DocsNow[f].body[i] # snap.docs[f].body[i]
         /\ DocsNow[f].body[i].url.pre = "media/"

\* C4 as stated: the result of sanitize_filename holds no illegal character,
\* neither starts nor ends with whitespace or a dot, holds no two consecutive
\* underscores, and is at most 200 characters long.
C4_Original ==
    san_pc = "returned" =>
      /\ \A i \in 1..Len(san_out) : san_out[i] \notin InvalidChars
      /\ san_out # <<>> =>
           /\ san_out[1] \notin Whitespace \cup {"."}
           /\ san_out[Len(san_out)] \notin Whitespace \cup {"."}
      /\ \A i \in 1..(Len(san_out) - 1) : ~(san_out[i] = "_" /\ san_out[i + 1] = "_")
      /\ Len(san_out) <= MaxNameLen

\* C13 as stated: for a non-empty title with at least one character outside
\* the illegal set the result of sanitize_filename is not empty, and it is the
\* one value the function has for that title.
C13_Original ==
    (san_pc = "returned" /\ san_in # <<>> /\ \E i \in 1..Len(san_in) : san_in[i] \notin InvalidChars)
        => (san_out # <<>> /\ san_out = sanitize_filename(san_in))

(***************************************************************************)
(* Properties of process_series_async and main.                            *)
(***************************************************************************)
TerminalStates == {"Skipped", "FetchFailed", "ConversionEmpty", "Written", "WriteFailed"}
Written == {i \in 1..Len(astate) : astate[i] = "Written"}
\* process_series_async has been left, by a return or by an exception
SeriesLeft == pl_pc \in {"ret", "crashed"}
Harvested == img_pc = "done" /\ img_dir = output_dir

\* C5 as stated: whatever the items of the feed, when process_series_async is
\* left after its article loop began, every article reference has been
\* processed to a terminal state and the image harvesting step has run.
C5_Original ==
    (SeriesLeft /\ eff.mkdir) =>
      /\ \A i \in 1..Len(astate) : astate[i] \in TerminalStates
      /\ Harvested

\* C6 as stated: a document is written only for an article whose fetch and
\* conversion gave non-empty content, an article without link is neither fetched
\* nor written, every article ends in a terminal state, and the count returned
\* is the number of articles that reached Written.
C6_Original ==
    /\ \A i \in Written : ahtml[i] # <<>> /\ convert_html_to_markdown(ahtml[i]) # <<>>
    /\ \A i \in 1..Len(astate) :
         ~Truthy(articles[i].link) => astate[i] \in {"Pending", "Skipped"}
    /\ (SeriesLeft /\ eff.mkdir) => \A i \in 1..Len(astate) : astate[i] \in TerminalStates
    /\ (pl_pc = "ret" /\ eff.mkdir) => ret = Cardinality(Written)

\* the body on disk is the converted body, up to the harvester's rewriting of
\* image URLs to media/ paths
BodyFrom(disk_body, markdown) ==
    /\ Len(disk_body) = Len(markdown)
    /\ \A k \in 1..Len(markdown) :
         \/ disk_body[k] = markdown[k]
         \/ /\ markdown[k].kind = "img"
            /\ disk_body[k].kind = "img"
            /\ disk_body[k].alt = markdown[k].alt
            /\ disk_body[k].url.pre = "media/"
\* the file holds the heading, attribution line and body of article i
HoldsArticle(file, i) ==
    /\ file.title = articles[i].title
    /\ file.link = articles[i].link
    /\ BodyFrom(file.body, convert_html_to_markdown(ahtml[i]))
\* process_series_async returns for a series whose directory held no document
ReturnedFresh == pl_pc = "ret" /\ eff.mkdir /\ eff.fresh_dir
FilesNow == DOMAIN fs[output_dir].docs

RECURSIVE SumCounts(_)
SumCounts(r) == IF r = <<>> THEN 0 ELSE Head(r).count + SumCounts(Tail(r))

\* the series in process falls under the skip: Step 1 failed, or the feed gave
\* no article
SkipCase == pl_pc = "ret" /\ (~eff.resolved \/ eff.found = 0)

\* C10: a series whose resolution fails or whose feed yields no article returns
\* 0 without making a directory, fetching an article page or downloading an
\* image; main then goes on to the next series with the total unchanged (an
\* abort never comes out of a skipped series); and when main is done every
\* series has been processed and the total is the sum of the counts returned.
C10_SkippedSeries ==
    /\ []((SkipCase => ret = 0 /\ ~eff.mkdir /\ eff.fetches = 0 /\ eff.downloads = 0
                        /\ img_pc = "idle")
          /\ (\A i \in 1..Len(sres) : sres[i].skip => sres[i].count = 0 /\ sres[i].untouched)
          /\ (pl_pc = "crashed" => eff.resolved /\ eff.found > 0)
          /\ (pl_pc = "done" => Len(sres) = nseeds /\ total_success = SumCounts(sres)))
    /\ [][SkipCase => pl_pc' = "main" /\ sidx' = sidx + 1 /\ total_success' = total_success
                      /\ fs' = fs]_vars

C10_Witness ==
    /\ pl_pc = "done"
    /\ nseeds = 2
    /\ sres[1].skip
    /\ ~sres[2].skip
    /\ sres[2].count > 0
    /\ total_success = sres[2].count


(***************************************************************************)
(* Properties of the content extractor.                                    *)
(***************************************************************************)
Least(S) == CHOOSE k \in S : \A j \in S : k <= j
\* the selectors whose element exists and whose markup was read
Matching == {k \in 1..Len(content_selectors) : page.lookup[k].kind = "match"}
\* those of them whose markup is not the empty string
MatchingNonEmpty == {k \in Matching : page.lookup[k].html # <<>>}

\* C11 as stated: the function returns the markup of the first selector whose
\* element matches and is non-empty, and returns the empty string only when
\* the page failed to load or no selector has a matching non-empty element.
C11_Original ==
    fetch_pc = "returned" =>
        /\ (page.goto = "ok" /\ MatchingNonEmpty # {}) =>
               fetch_out = page.lookup[Least(MatchingNonEmpty)].html
        /\ fetch_out = <<>> => (page.goto # "ok" \/ MatchingNonEmpty = {})

\* C11, amended: the function returns the markup of the first selector whose
\* element exists and whose markup could be read, be that markup empty or
\* not; a lookup that raises counts as no match; it returns the empty string
\* when the page failed to load or no selector matched.
C11_FirstMatchingSelector ==
    fetch_pc = "returned" =>
        fetch_out = IF page.goto = "ok" /\ Matching # {}
                    THEN page.lookup[Least(Matching)].html
                    ELSE <<>>

\* a loaded page whose first selector raises, whose second selector matches
\* an empty element and whose third matches an element with markup
C11_Witness ==
    /\ fetch_pc = "returned"
    /\ page.goto = "ok"
    /\ page.lookup[1].kind = "raise"
    /\ page.lookup[2] = [kind |-> "match", html |-> <<>>]
    /\ page.lookup[3].kind = "match"
    /\ page.lookup[3].html # <<>>
    /\ fetch_out = <<>>

(***************************************************************************)
(* Properties of the feed parser.                                          *)
(***************************************************************************)
\* the item has no title (no link): the element is missing or has no text
Lacks(x) == x = Absent \/ x = None
FirstQuery(l) == Least({i \in 1..Len(l) : l[i] = "?"})

\* C12 as stated: the parser yields one article reference per item, in
\* document order; an item lacking a title gets "Untitled", an item lacking a
\* link gets the empty string, and a link with a query string is cut just
\* before its first "?".
C12_Original ==
    (feed_pc = "returned" /\ feed_doc.status = "ok") =>
        /\ Len(feed_articles) = Len(feed_doc.items)
        /\ \A i \in 1..Len(feed_doc.items) :
             LET item == feed_doc.items[i]
                 ref == feed_articles[i]
             IN /\ ref.title = IF Lacks(item.title) THEN Untitled ELSE item.title
                /\ Lacks(item.link) => ref.link = <<>>
                /\ (~Lacks(item.link) /\ \E k \in 1..Len(item.link) : item.link[k] = "?") =>
                       ref.link = SubSeq(item.link, 1, FirstQuery(item.link) - 1)
                /\ (~Lacks(item.link) /\ \A k \in 1..Len(item.link) : item.link[k] # "?") =>
                       ref.link = item.link

====
